---- MODULE Spec2Model ----
(***************************************************************************)
(* Model of botlib.py: the FastAPI webhook endpoint of a Telegram bot, the *)
(* update dispatcher process_update and the in-memory media cache.         *)
(*                                                                         *)
(* One webhook request is followed from its arrival to the end of its      *)
(* dispatch.  The handler runs on the event loop (the reactor); the        *)
(* dispatch runs either in a worker thread (asyncio.to_thread) or, when    *)
(* scheduling raises, inline in the handler.  process_update is cut at the *)
(* points between its four blocks (prologue, photo, video, text): each     *)
(* block touches media_cache at most once, its other steps are calls to    *)
(* the platform, the filesystem and the database, whose outcomes are       *)
(* drawn from the outcomes those calls can have.                           *)
(*                                                                         *)
(* Beside it run the auxiliary endpoints (/healthz, /cache_keys,           *)
(* /admin/delete_cache), the transport client on the responses of the      *)
(* platform, and monthly_cleanup_loop, followed from startup through its   *)
(* sleeps and cleanups of the log directory until it is cancelled.         *)
(***************************************************************************)
EXTENDS Integers, Sequences, FiniteSets, TLC

\* Longest photo-variant list of an update.
MaxPhotos == 2
\* The calendar years the retention loop is followed through.
MaxYears == 1
\* The seconds the clock of the media directory runs through.
MaxClock == 2

(***************************************************************************)
(* Values                                                                  *)
(***************************************************************************)
\* Python's None, for the optional header and for dict.get() of a missing key.
None == "<None>"

\* A configured webhook secret; "" is the unset WEBHOOK_SECRET.
Secret == "s3cr3t"
Secrets == {"", Secret}

\* Values of the X-Telegram-Bot-Api-Secret-Token header (None: not sent; "":
\* sent with an empty value) and of the {secret_path:path} URL segment.
Headers == {None, "", Secret, "wrong"}
Paths == {"", Secret, "wrong"}

\* Truthiness of an Optional[str], as `if header_token:` tests it.
Truthy(s) == s /= None /\ s /= ""

FileIds == {"f1", "f2"}
FileBytes == {"b1", "b2"}
\* file_path values of getFile, as lists of path segments, a segment being a
\* list of characters.
FilePaths == {<< <<"p">>, <<"a", "\\", "1">> >>}

SeqsUpTo(S, n) == UNION {[1..k -> S] : k \in 0..n}

(***************************************************************************)
(* Message text: a string is a sequence of tokens, " " being whitespace.   *)
(***************************************************************************)
RECURSIVE lstrip(_)
lstrip(s) == IF s /= <<>> /\ Head(s) = " " THEN lstrip(Tail(s)) ELSE s

RECURSIVE rstrip(_)
rstrip(s) ==
  IF s /= <<>> /\ s[Len(s)] = " " THEN rstrip(SubSeq(s, 1, Len(s) - 1)) ELSE s

strip(s) == rstrip(lstrip(s))

startswith(s, prefix) == s /= <<>> /\ Head(s) = prefix

Texts == { <<"/start">>, <<" ", "/list_cache", " ">>, <<"x">>, <<" ">> }

(***************************************************************************)
(* Updates.  A message is a record; t tells its JSON shape: "none" (key    *)
(* missing or null), "empty" ({}), "str" (a non-dict value) or "dict".     *)
(* photo.t is "absent", "list" or "other" (a non-list value); video is     *)
(* Absent or the file_id of the descriptor; text.t is "absent", "str" or   *)
(* "other" (a non-string value).                                           *)
(***************************************************************************)
Absent == "<absent>"
NoPhoto == [t |-> "absent", items |-> <<>>]
NoText == [t |-> "absent", toks |-> <<>>]
PhotoList(l) == [t |-> "list", items |-> l]
Text(s) == [t |-> "str", toks |-> s]

Msg(t, p, v, x) == [t |-> t, photo |-> p, video |-> v, text |-> x]
NoMsg == Msg("none", NoPhoto, Absent, NoText)
EmptyMsg == Msg("empty", NoPhoto, Absent, NoText)
StrMsg == Msg("str", NoPhoto, Absent, NoText)

PhotoLists == SeqsUpTo(FileIds, MaxPhotos)

Messages ==
  {Msg("dict", PhotoList(l), Absent, NoText) : l \in PhotoLists}
    \cup {Msg("dict", [t |-> "other", items |-> <<>>], Absent, NoText)}
    \cup {Msg("dict", NoPhoto, v, NoText) : v \in FileIds}
    \cup {Msg("dict", NoPhoto, Absent, Text(s)) : s \in Texts}
    \cup {Msg("dict", NoPhoto, Absent, [t |-> "other", toks |-> <<>>])}
    \cup {Msg("dict", PhotoList(<<"f1", "f2">>), "f1", Text(<<"x">>)),
          Msg("dict", PhotoList(<<"f1">>), Absent, Text(<<"/list_cache">>)),
          Msg("dict", PhotoList(<<"f1">>), "f1", Text(<<"/list_cache">>)),
          Msg("dict", PhotoList(<<>>), Absent, Text(<<"x">>)),
          Msg("dict", NoPhoto, "f2", Text(<<"/list_cache">>)),
          Msg("dict", NoPhoto, Absent, NoText)}

\* A decoded JSON value: t is "object" for a JSON object, "array" or "null"
\* for the values that are no object.
Json(t, m, e, cb) ==
  [t |-> t, message |-> m, edited_message |-> e, callback_query |-> cb]
NoPayload == Json("unset", NoMsg, NoMsg, FALSE)
NonObjects == {Json("array", NoMsg, NoMsg, FALSE), Json("null", NoMsg, NoMsg, FALSE)}

Updates ==
  {Json("object", m, NoMsg, FALSE) : m \in Messages}
    \cup {Json("object", NoMsg, m, FALSE) :
            m \in {Msg("dict", PhotoList(<<"f2">>), Absent, NoText),
                   Msg("dict", NoPhoto, Absent, Text(<<"x">>))}}
    \cup {Json("object", EmptyMsg, Msg("dict", NoPhoto, "f1", NoText), FALSE),
          Json("object", EmptyMsg, NoMsg, FALSE),
          Json("object", StrMsg, NoMsg, FALSE),
          Json("object", NoMsg, NoMsg, TRUE),
          Json("object", NoMsg, NoMsg, FALSE)}

\* A request body: bytes that are no JSON, or the JSON value they decode to.
Malformed == [json |-> FALSE, val |-> NoPayload]
Decodes(v) == [json |-> TRUE, val |-> v]
Bodies == {Malformed} \cup {Decodes(v) : v \in NonObjects \cup Updates}

\* The bodies of the endpoint's specification: one of each shape.
WebhookBodies ==
  {Malformed}
    \cup {Decodes(v) : v \in NonObjects}
    \cup {Decodes(Json("object", NoMsg, NoMsg, FALSE)),
          Decodes(Json("object", Msg("dict", NoPhoto, Absent, Text(<<"/start">>)),
                       NoMsg, FALSE)),
          Decodes(Json("object", Msg("dict", PhotoList(<<"f1", "f2">>), "f1", Text(<<"x">>)),
                       NoMsg, FALSE))}

\* The bodies of the cache's specification: what the cache is written from
\* and listed by, and what must leave it alone.
CacheBodies ==
  {Malformed}
    \cup {Decodes(Json("object", m, NoMsg, FALSE)) :
            m \in {Msg("dict", PhotoList(<<"f1">>), Absent, Text(<<"/list_cache">>)),
                   Msg("dict", PhotoList(<<"f1">>), "f1", Text(<<"/list_cache">>)),
                   Msg("dict", NoPhoto, "f2", Text(<<"/list_cache">>)),
                   Msg("dict", NoPhoto, Absent, Text(<<" ", "/list_cache", " ">>)),
                   Msg("dict", NoPhoto, Absent, Text(<<"/start">>)),
                   Msg("dict", NoPhoto, Absent, Text(<<"x">>)),
                   Msg("dict", NoPhoto, Absent, NoText)}}
    \cup {Decodes(Json("object", NoMsg, NoMsg, TRUE)),
          Decodes(Json("object", NoMsg, NoMsg, FALSE))}

\* The bodies of the specification of everything at once: a rejected one, the
\* updates that carry no media, and one photo.
FrameBodies ==
  {Malformed}
    \cup {Decodes(Json("object", m, NoMsg, FALSE)) :
            m \in {Msg("dict", PhotoList(<<"f1">>), Absent, NoText),
                   Msg("dict", NoPhoto, Absent, Text(<<" ", "/list_cache", " ">>)),
                   Msg("dict", NoPhoto, Absent, Text(<<"/start">>)),
                   Msg("dict", NoPhoto, Absent, Text(<<"x">>)),
                   Msg("dict", NoPhoto, Absent, NoText)}}
    \cup {Decodes(Json("object", NoMsg, NoMsg, TRUE)),
          Decodes(Json("object", NoMsg, NoMsg, FALSE))}

(***************************************************************************)
(* Local time.  A datetime is a record of year, month, day, hour and       *)
(* minute; the clock of time.time() counts the seconds since 00:00 UTC of  *)
(* the first of January of FirstYear.                                      *)
(***************************************************************************)
FirstYear == 2024
LastYear == FirstYear + MaxYears - 1

DateTime(y, mo, d, h, mi) ==
  [year |-> y, month |-> mo, day |-> d, hour |-> h, minute |-> mi]

IsLeap(y) == y % 4 = 0 /\ (y % 100 /= 0 \/ y % 400 = 0)
DaysInMonth(y, mo) ==
  IF mo = 2 THEN (IF IsLeap(y) THEN 29 ELSE 28)
  ELSE IF mo \in {4, 6, 9, 11} THEN 30
  ELSE 31

RECURSIVE DaysBeforeMonth(_, _)
DaysBeforeMonth(y, mo) ==
  IF mo = 1 THEN 0 ELSE DaysBeforeMonth(y, mo - 1) + DaysInMonth(y, mo - 1)

RECURSIVE DaysBeforeYear(_)
DaysBeforeYear(y) ==
  IF y <= FirstYear THEN 0
  ELSE DaysBeforeYear(y - 1) + (IF IsLeap(y - 1) THEN 366 ELSE 365)

\* The minutes from the first of January of FirstYear, 00:00, to a datetime.
Minutes(dt) ==
  ((DaysBeforeYear(dt.year) + DaysBeforeMonth(dt.year, dt.month) + dt.day - 1) * 24
     + dt.hour) * 60 + dt.minute

\* (a - b).total_seconds() of two naive datetimes (line 494).
total_seconds(a, b) == (Minutes(a) - Minutes(b)) * 60

\* The UTC offsets of local time, in minutes: standard and daylight saving.
UtcOffsets == {0, 60}

\* time.time() when the local clock reads dt at a UTC offset.
time(dt, offset) == (Minutes(dt) - offset) * 60

\* Lines 489-493: the wake time computed from the current local time.
NextRun(now) ==
  LET y == now.year + (IF now.month = 12 THEN 1 ELSE 0)
      mo == IF now.month = 12 THEN 1 ELSE now.month + 1
  IN DateTime(y, mo, 1, 0, 5)

\* The local time when asyncio.sleep(sleep_seconds) returns (line 497): the
\* sleep lasts sleep_seconds of elapsed time, so the local clock reads
\* next_run when the UTC offset is the one the sleep began with, an hour less
\* when local time fell back in between, an hour more when it sprang forward.
LocalAfterSleep(next_run, before, after) ==
  IF after = before THEN next_run
  ELSE IF after > before THEN [next_run EXCEPT !.hour = 1]
  ELSE LET y == IF next_run.month = 1 THEN next_run.year - 1 ELSE next_run.year
           mo == IF next_run.month = 1 THEN 12 ELSE next_run.month - 1
       IN DateTime(y, mo, DaysInMonth(y, mo), 23, 5)

\* The local times the process is started at, every month of FirstYear.
StartTimes ==
  {DateTime(FirstYear, mo, t[1], t[2], t[3]) :
     mo \in 1..12, t \in {<<1, 0, 0>>, <<1, 0, 5>>, <<15, 12, 0>>, <<28, 23, 59>>}}

(***************************************************************************)
(* The log directory: file names as lists of name parts, each file with    *)
(* its modification time.                                                  *)
(***************************************************************************)
BotLog == <<"bot", ".log">>
Rotated == <<"bot", ".log", ".2023-11-20">>
AppLog == <<"app", ".log">>
Notes == <<"notes", ".txt">>

\* str.endswith of a name part and str.startswith of name parts (line 466).
endswith(name, part) == name /= <<>> /\ name[Len(name)] = part
prefixed(name, parts) ==
  Len(name) >= Len(parts) /\ SubSeq(name, 1, Len(parts)) = parts

\* Lines 466-467: the files _remove_old_logs looks at.
ConsidersEveryFile(fname) == TRUE
Considers(fname) ==
  ~(~endswith(fname, ".log") /\ ~prefixed(fname, <<"bot", ".log">>))

\* Lines 457-479: _remove_old_logs at clock reading t.  failing are the
\* files that os.remove raises on; the exception is caught per file.
DaySeconds == 24 * 3600
remove_old_logs(dir, t, older_than_days, failing) ==
  LET cutoff == t - older_than_days * DaySeconds
      aged == {f \in DOMAIN dir : Considers(f) /\ dir[f] < cutoff}
      removed == aged \ failing
  IN [dir |-> [f \in DOMAIN dir \ removed |-> dir[f]],
      report |-> [older_than_days |-> older_than_days, removed |-> removed,
                  errors |-> aged \cap failing]]

NoReport == [older_than_days |-> 0, removed |-> {}, errors |-> {}]

\* Directories by the age in days their files have at the first wake of the
\* loop.
LogAges ==
  {(BotLog :> 10) @@ (Rotated :> 40) @@ (AppLog :> 400) @@ (Notes :> 400),
   (BotLog :> 31) @@ (AppLog :> 32) @@ (Notes :> 10),
   (BotLog :> 1) @@ (Rotated :> 2)}
LogDirs(wake) ==
  {[f \in DOMAIN ages |-> wake - ages[f] * DaySeconds] : ages \in LogAges}

(***************************************************************************)
(* State                                                                   *)
(***************************************************************************)
VARIABLES
  WEBHOOK_SECRET,  \* the configured secret, "" when unset
  media_cache,     \* file_id -> [bytes, user_id, type, filename]
  st,              \* the request: idle, received, authenticated, parsed,
                   \* scheduled, inline, acknowledged, rejected, failed
  header,          \* x_telegram_bot_api_secret_token of the request
  path,            \* secret_path of the request
  body,            \* the request body
  status,          \* HTTP status of the response, 0 while there is none
  task,            \* the created task: none, pending, running, finished
  calls,           \* invocations of process_update for the request
  DATABASE_URL,    \* the connection string, "" when unset
  psycopg2,        \* the driver module, None when its import failed
  payload,         \* the argument of process_update
  pc,              \* process_update: idle, begin, photo, video, text, done, raised
  fx,              \* what the running process_update has done so far
  admin,           \* the request to /healthz, /cache_keys or /admin/delete_cache
                   \* last received, and its response
  loop,            \* monthly_cleanup_loop: none, created, sleeping, exited
  now,             \* the local time the loop last read (line 489)
  next_run,        \* the wake time it computed from it (line 493)
  utcoffset,       \* the UTC offset of local time at that reading
  log_dir,         \* the files of LOG_DIR: name -> modification time
  report,          \* what the last _remove_old_logs logged
  wire,            \* the last call of the transport client: the requests it
                   \* sent, the response to the last of them, its outcome
  media_dir,       \* the files of MEDIA_DIR: destination path -> bytes
  clock            \* int(time.time()), the seconds of the clock (line 231)

vars ==
  <<WEBHOOK_SECRET, media_cache, st, header, path, body, status, task, calls,
    DATABASE_URL, psycopg2, payload, pc, fx, admin, loop, now, next_run,
    utcoffset, log_dir, report, wire, media_dir, clock>>

\* The configuration, read once at import (lines 21-47).
config == <<WEBHOOK_SECRET, DATABASE_URL, psycopg2>>

\* The webhook request in flight and its dispatch.
request == <<st, header, path, body, status, task, calls, payload, pc, fx>>

\* The retention loop and the directory it cleans.
retention == <<loop, now, next_run, utcoffset, log_dir, report>>

\* What neither the webhook endpoint nor process_update touches.
aside == <<admin, retention, wire, clock>>

\* The media directory and the clock that names its files.
store == <<media_dir, clock>>

\* user_id and chat_id of the sender.
UserId == "u1"

NoFx ==
  [user |-> "none", photo |-> "none", video |-> "none", reached |-> {},
   getfile |-> <<>>, download |-> <<>>, cached |-> <<>>, fs |-> <<>>,
   db |-> <<>>, sent |-> <<>>, caught |-> FALSE]

\* A send_message call: the kind of text, whether the call returned, and what
\* the text carries: the stored filename of an acknowledgment (line 364); the
\* count, the keys and the "нет" marker of a /list_cache reply (line 406).
NoName == [ts |-> 0, name |-> <<>>]
Sent(kind, ok, keys) ==
  [kind |-> kind, ok |-> ok, keys |-> keys, name |-> NoName, count |-> 0,
   none |-> FALSE]
Ack(kind, ok, name) == [Sent(kind, ok, {}) EXCEPT !.name = name]
ListingWithoutMarker(ok, keys) ==
  [Sent("list_cache", ok, keys) EXCEPT !.count = Cardinality(keys)]
Listing(ok, keys) ==
  [Sent("list_cache", ok, keys) EXCEPT !.count = Cardinality(keys),
                                       !.none = (keys = {})]

\* The dict of line 76 and its insert-or-overwrite assignment.
EmptyCache == [k \in {} |-> None]
PutIfAbsent(cache, k, v) ==
  [x \in DOMAIN cache \cup {k} |-> IF x \in DOMAIN cache THEN cache[x] ELSE v]
Put(cache, k, v) == [x \in DOMAIN cache \cup {k} |-> IF x = k THEN v ELSE cache[x]]
CacheEntry(bytes, type, filename) ==
  [bytes |-> bytes, user_id |-> UserId, type |-> type, filename |-> filename]

\* os.path.basename of a file_path.
basename(p) == p[Len(p)]

\* str.replace on single characters.
replace(str, old, new) == [i \in DOMAIN str |-> IF str[i] = old THEN new ELSE str[i]]

\* Lines 230-235: the destination path of save_media_to_fs, MEDIA_DIR joined
\* with "<seconds>_<safe_name>".
MEDIA_DIR == <<".", "media">>
save_media_to_fs(filename, seconds) ==
  LET safe_name == replace(replace(filename, "/", "_"), "\\", "_")
  IN Append(MEDIA_DIR, [ts |-> seconds, name |-> safe_name])

\* Lines 232-233: open(dest, "wb") creates the file or truncates the one that
\* is there, and f.write stores the bytes in it.
EmptyDir == [d \in {} |-> None]
write(dir, dest, file_bytes) ==
  [d \in DOMAIN dir \cup {dest} |-> IF d = dest THEN file_bytes ELSE dir[d]]

\* The filenames save_media_to_fs is given: the basenames process_update
\* passes (lines 360, 385) and names that differ from them in a separator.
FileNames ==
  {basename(p) : p \in FilePaths}
    \cup {<<"a", "_", "1">>, <<"a", "/", "1">>, <<"b">>, <<"c">>}

\* Values of DATABASE_URL and of the name psycopg2 (lines 21-25, 39).
DatabaseUrls == {"", "postgresql://db"}
Drivers == {None, "psycopg2"}

\* Lines 256-275: save_media_to_db returns False before any connection when
\* the database is unconfigured or the driver missing; otherwise it connects
\* and returns whether the insert went through.
save_media_to_db_always_connects(url, driver, insert_ok) ==
  [ok |-> Truthy(url) /\ driver /= None /\ insert_ok, connected |-> TRUE]

save_media_to_db(url, driver, insert_ok) ==
  IF ~Truthy(url) THEN [ok |-> FALSE, connected |-> FALSE]
  ELSE IF driver = None THEN [ok |-> FALSE, connected |-> FALSE]
  ELSE [ok |-> insert_ok, connected |-> TRUE]

\* The file_id arguments of /admin/delete_cache: the ids of the updates and
\* one that no update carries.
AdminFileIds == FileIds \cup {"f0"}

\* The requests to the auxiliary endpoints and their responses (lines
\* 534-551): done is FALSE while /cache_keys has evaluated "count" and not
\* yet "keys".
NoAdmin ==
  [endpoint |-> "none", done |-> TRUE, file_id |-> None, deleted |-> None,
   msg |-> None, count |-> 0, keys |-> {}]
Healthz == [NoAdmin EXCEPT !.endpoint = "healthz"]
CacheKeys(done, count, keys) ==
  [NoAdmin EXCEPT !.endpoint = "cache_keys", !.done = done, !.count = count,
                  !.keys = keys]
Deleted(file_id) ==
  [NoAdmin EXCEPT !.endpoint = "admin_delete_cache", !.file_id = file_id,
                  !.deleted = file_id]
NotFound(file_id) ==
  [NoAdmin EXCEPT !.endpoint = "admin_delete_cache", !.file_id = file_id,
                  !.msg = "not found"]

\* del media_cache[k] (line 549).
Del(cache, k) == [x \in DOMAIN cache \ {k} |-> cache[x]]

\* What a request of the transport client meets: no response (requests
\* raises: no connection, a timeout) or a response with its HTTP status.
NoResponse == 0
HttpStatuses == {NoResponse, 200, 304, 404, 500}

\* A response to _api_post: json tells whether the body decodes to a JSON
\* object, ok is the truth of the "ok" field of the envelope, file_path the
\* file_path of its result, <<>> when missing or empty.
ApiResponses ==
  [status : HttpStatuses, json : BOOLEAN, ok : BOOLEAN,
   file_path : {<<>>} \cup FilePaths]
\* A response to the GET of download_file_by_path.
FileResponses == [status : HttpStatuses, bytes : FileBytes]

\* requests' Response.raise_for_status: raises on a 4xx or 5xx status.
raise_for_status(code) == 400 <= code /\ code < 600

\* Lines 90-104: _api_post sends one POST and returns the envelope unless
\* requests.post, raise_for_status or resp.json() raises or "ok" is falsy.
api_post_ignores_ok(resp) ==
  [requests |-> 1,
   returned |-> resp.status /= NoResponse /\ ~raise_for_status(resp.status) /\ resp.json]
api_post(resp) ==
  [requests |-> 1,
   returned |-> /\ resp.status /= NoResponse
                /\ ~raise_for_status(resp.status)
                /\ resp.json
                /\ resp.ok]

\* Lines 195-206.
get_file_path(resp) ==
  IF api_post(resp).returned /\ resp.file_path /= <<>>
    THEN [ok |-> TRUE, file_path |-> resp.file_path]
    ELSE [ok |-> FALSE, file_path |-> <<>>]

\* Lines 209-218.
download_file_by_path(resp) ==
  IF resp.status /= NoResponse /\ ~raise_for_status(resp.status)
    THEN [ok |-> TRUE, bytes |-> resp.bytes]
    ELSE [ok |-> FALSE, bytes |-> None]

\* The methods the client calls through _api_post (lines 107-206).
ApiMethods ==
  {"setWebhook", "deleteWebhook", "sendMessage", "sendPhoto", "sendVideo", "getFile"}

NoWire ==
  [op |-> "none", requests |-> <<>>, status |-> NoResponse, json |-> FALSE,
   ok |-> FALSE, file_path |-> <<>>, returned |-> FALSE]

\* Outcomes of the calls process_update makes.  user_exists is the hook the
\* source leaves to be replaced by a database query: it answers True or False,
\* or raises as the query can.
UserExistsOutcomes == {"true", "false", "raise"}
GetFileOutcomes == {get_file_path(resp) : resp \in ApiResponses}
DownloadOutcomes == {download_file_by_path(resp) : resp \in FileResponses}

\* The "type" tags of the cache entries (lines 355, 380).
MediaKinds == {"photo", "video"}

\* The state of the program and of the request in flight.
TypeOK ==
  /\ WEBHOOK_SECRET \in Secrets
  /\ DOMAIN media_cache \subseteq FileIds
  /\ \A k \in DOMAIN media_cache :
       media_cache[k] \in [bytes : FileBytes, user_id : {UserId}, type : MediaKinds,
                           filename : {basename(f) : f \in FilePaths}]
  /\ st \in {"idle", "received", "authenticated", "parsed", "scheduled", "inline",
             "acknowledged", "rejected", "failed"}
  /\ header \in Headers
  /\ path \in Paths
  /\ body \in Bodies
  /\ status \in {0, 200, 400, 403, 500}
  /\ task \in {"none", "pending", "running", "finished"}
  /\ calls \in {0, 1}
  /\ DATABASE_URL \in DatabaseUrls
  /\ psycopg2 \in Drivers
  /\ payload \in {NoPayload} \cup NonObjects \cup Updates
  /\ pc \in {"idle", "begin", "photo", "video", "text", "done", "raised"}
  /\ fx.user \in {"none"} \cup UserExistsOutcomes
  /\ \A type \in MediaKinds :
       fx[type] \in {"none", "ok", "resolve_failed", "download_failed", "fs_failed",
                     "ack_failed"}
  /\ fx.reached \subseteq MediaKinds \cup {"text"}
  /\ fx.caught \in BOOLEAN
  /\ \A i \in DOMAIN fx.sent : fx.sent[i].keys \subseteq FileIds
  /\ admin.endpoint \in {"none", "healthz", "cache_keys", "admin_delete_cache"}
  /\ admin.done \in BOOLEAN
  /\ admin.file_id \in AdminFileIds \cup {None}
  /\ admin.deleted \in AdminFileIds \cup {None}
  /\ admin.count \in 0..Cardinality(FileIds)
  /\ admin.keys \subseteq FileIds
  /\ loop \in {"none", "created", "sleeping", "exited"}
  /\ now.year \in FirstYear..LastYear + 1 /\ now.month \in 1..12
  /\ now.day \in 1..DaysInMonth(now.year, now.month)
  /\ now.hour \in 0..23 /\ now.minute \in 0..59
  /\ next_run.year \in FirstYear..LastYear + 2 /\ next_run.month \in 1..12
  /\ utcoffset \in UtcOffsets
  /\ \A f \in DOMAIN log_dir : f \in {BotLog, Rotated, AppLog, Notes}
  /\ report.removed \cup report.errors \subseteq {BotLog, Rotated, AppLog, Notes}
  /\ wire.op \in ApiMethods \cup {"none", "download"}
  /\ wire.status \in HttpStatuses
  /\ Len(wire.requests) \in 0..2
  /\ clock \in 1..MaxClock
  /\ DOMAIN media_dir \subseteq
       {save_media_to_fs(f, t) : f \in FileNames, t \in 1..MaxClock}
  /\ \A d \in DOMAIN media_dir : media_dir[d] \in FileBytes

\* The program after import, before any request: an empty cache (line 76).
Started ==
  /\ media_cache = EmptyCache
  /\ st = "idle"
  /\ header = None
  /\ path = ""
  /\ body = Malformed
  /\ status = 0
  /\ task = "none"
  /\ calls = 0
  /\ payload = NoPayload
  /\ pc = "idle"
  /\ fx = NoFx
  /\ admin = NoAdmin
  /\ wire = NoWire
  /\ media_dir = EmptyDir
  /\ clock = 1

\* The retention loop before startup_event, with no log file written yet.
Unscheduled ==
  /\ loop = "none"
  /\ now = DateTime(FirstYear, 12, 15, 12, 0)
  /\ next_run = now
  /\ utcoffset = 0
  /\ log_dir = << >>
  /\ report = NoReport

\* A deployment with its database configured.
Init ==
  /\ WEBHOOK_SECRET \in Secrets
  /\ DATABASE_URL = "postgresql://db"
  /\ psycopg2 = "psycopg2"
  /\ Started
  /\ Unscheduled

\* A deployment with a webhook secret and without a database.
InitCache ==
  /\ WEBHOOK_SECRET = Secret
  /\ DATABASE_URL = ""
  /\ psycopg2 = "psycopg2"
  /\ Started
  /\ Unscheduled

\* Every deployment with its secret set: the database configured or not, the
\* driver there or not.
InitDb ==
  /\ WEBHOOK_SECRET = Secret
  /\ DATABASE_URL \in DatabaseUrls
  /\ psycopg2 \in Drivers
  /\ Started
  /\ Unscheduled

\* A deployment started in the last month that is followed, with old logs.
InitFrame ==
  /\ WEBHOOK_SECRET = Secret
  /\ DATABASE_URL = ""
  /\ psycopg2 = "psycopg2"
  /\ Started
  /\ loop = "none"
  /\ now = DateTime(LastYear, 12, 15, 12, 0)
  /\ next_run = now
  /\ utcoffset = 0
  /\ log_dir \in LogDirs(time(NextRun(now), utcoffset))
  /\ report = NoReport

\* The process at every start time, with every log directory.
InitRetention ==
  /\ WEBHOOK_SECRET = Secret
  /\ DATABASE_URL = ""
  /\ psycopg2 = "psycopg2"
  /\ Started
  /\ loop = "none"
  /\ now \in StartTimes
  /\ next_run = now
  /\ utcoffset \in UtcOffsets
  /\ log_dir \in LogDirs(time(NextRun(now), utcoffset))
  /\ report = NoReport

(***************************************************************************)
(* webhook_endpoint                                                        *)
(***************************************************************************)
\* Lines 427-438: TRUE iff no HTTPException(403) is raised.
AuthPassesNoFallback(secret, h, p) ==
  IF Truthy(secret)
    THEN IF Truthy(h) THEN h = secret ELSE TRUE
    ELSE TRUE

AuthPassesPathWins(secret, h, p) ==
  IF Truthy(secret)
    THEN IF p = secret THEN TRUE ELSE Truthy(h) /\ h = secret
    ELSE TRUE

AuthPasses(secret, h, p) ==
  IF Truthy(secret)
    THEN IF Truthy(h)
           THEN ~(h /= secret)
           ELSE ~(p /= secret /\ secret /= "")
    ELSE TRUE

\* The request reaches the handler; the previous one and its dispatch are over.
webhook_receive(HS, PS, BS) ==
  /\ st \in {"idle", "acknowledged", "rejected", "failed"}
  /\ task \in {"none", "finished"}
  /\ \E h \in HS, p \in PS, b \in BS :
       /\ header' = h
       /\ path' = p
       /\ body' = b
  /\ st' = "received"
  /\ status' = 0
  /\ task' = "none"
  /\ calls' = 0
  /\ payload' = NoPayload
  /\ pc' = "idle"
  /\ fx' = NoFx
  /\ UNCHANGED <<config, aside, media_dir, media_cache>>

\* Lines 427-438.
webhook_authenticate ==
  /\ st = "received"
  /\ IF AuthPasses(WEBHOOK_SECRET, header, path)
       THEN st' = "authenticated" /\ status' = status
       ELSE st' = "rejected" /\ status' = 403
  /\ UNCHANGED <<config, aside, media_dir, media_cache, header, path, body, task, calls,
                 payload, pc, fx>>

\* Lines 440-444: request.json() raises on bytes that are no JSON, and returns
\* any JSON value otherwise.
webhook_parse ==
  /\ st = "authenticated"
  /\ IF body.json
       THEN st' = "parsed" /\ status' = status /\ payload' = body.val
       ELSE st' = "rejected" /\ status' = 400 /\ payload' = payload
  /\ UNCHANGED <<config, aside, media_dir, media_cache, header, path, body, task, calls,
                 pc, fx>>

\* Lines 448-450: create_task raised, process_update is called in the handler.
ScheduleFallbackDropped ==
  /\ st' = "acknowledged"
  /\ status' = 200
  /\ UNCHANGED <<task, calls, pc>>

ScheduleFallback ==
  /\ st' = "inline"
  /\ calls' = calls + 1
  /\ pc' = "begin"
  /\ UNCHANGED <<task, status>>

\* Lines 446-450: create_task either schedules the dispatch or raises.
webhook_schedule ==
  /\ st = "parsed"
  /\ \E created \in BOOLEAN :
       IF created
         THEN /\ st' = "scheduled"
              /\ task' = "pending"
              /\ UNCHANGED <<calls, pc, status>>
         ELSE ScheduleFallback
  /\ UNCHANGED <<config, aside, media_dir, media_cache, header, path, body, payload, fx>>

\* Line 451, reached after create_task or after the inline call returned; an
\* exception leaving the inline call leaves the handler: the server answers 500.
webhook_respond ==
  /\ \/ st = "scheduled" /\ st' = "acknowledged" /\ status' = 200
     \/ st = "inline" /\ pc = "done" /\ st' = "acknowledged" /\ status' = 200
     \/ st = "inline" /\ pc = "raised" /\ st' = "failed" /\ status' = 500
  /\ UNCHANGED <<config, aside, media_dir, media_cache, header, path, body, task, calls,
                 payload, pc, fx>>

\* Line 447: the worker thread of asyncio.to_thread calls process_update.
task_start ==
  /\ task = "pending"
  /\ task' = "running"
  /\ calls' = calls + 1
  /\ pc' = "begin"
  /\ UNCHANGED <<config, aside, media_dir, media_cache, st, header, path, body, status,
                 payload, fx>>

\* The task is over when the process_update it runs returns or raises.
TaskAfter(newpc) ==
  IF task = "running" /\ newpc \in {"done", "raised"} THEN "finished" ELSE task

(***************************************************************************)
(* process_update                                                          *)
(***************************************************************************)
\* Line 315: update.get("message") or update.get("edited_message").
MessageOf(update) ==
  IF update.message.t \in {"dict", "str"} THEN update.message ELSE update.edited_message

\* Where process_update goes after user_exists answered (lines 331-338).
AfterUserCheckIgnored(exists) == "photo"
AfterUserCheck(exists) == IF exists = "true" THEN "photo" ELSE "done"

\* Lines 312-338: everything before the photo block.
process_update_begin ==
  /\ pc = "begin"
  /\ IF payload.t /= "object"
       THEN \* line 312, outside the try: update.keys() raises AttributeError
            /\ pc' = "raised"
            /\ fx' = fx
       ELSE LET message == MessageOf(payload) IN
            IF message.t = "none"
              THEN pc' = "done" /\ fx' = fx
            ELSE IF message.t = "str"
              THEN \* line 325: message.get raises, caught at line 410
                   pc' = "done" /\ fx' = [fx EXCEPT !.caught = TRUE]
            ELSE \E exists \in UserExistsOutcomes, sent_ok \in BOOLEAN :
                   /\ pc' = IF exists = "raise" THEN "done" ELSE AfterUserCheck(exists)
                   /\ fx' = [fx EXCEPT
                               !.user = exists,
                               !.caught = (exists = "raise"),
                               !.sent = IF exists = "false"
                                          THEN Append(@, Sent("not_registered", sent_ok, {}))
                                          ELSE @]
  /\ task' = TaskAfter(pc')
  /\ UNCHANGED <<config, aside, media_dir, media_cache, st, header, path, body, status,
                 calls, payload>>

\* What the try block of a media kind went through: the first call that
\* failed, or "ok" (lines 348-364 and 373-386).  save_media_to_db returns its
\* failure as False and raises nothing.
TryOutcome(gf, dl, fs_ok, ack_ok) ==
  IF ~gf.ok THEN "resolve_failed"
  ELSE IF ~dl.ok THEN "download_failed"
  ELSE IF ~fs_ok THEN "fs_failed"
  ELSE IF ~ack_ok THEN "ack_failed"
  ELSE "ok"

\* Lines 349-358: the cache is written when get_file_path and
\* download_file_by_path have both returned.
DownloadedOrResolved(out) == out /= "resolve_failed"
Downloaded(out) == out \notin {"resolve_failed", "download_failed"}

\* The photo and the video block share their code (lines 346-367, 371-389):
\* resolve, download, cache, filesystem, database, acknowledge; on an
\* exception, the error notice, whose own failure reaches line 410.
Ingest(type, file_id, next) ==
  \E gf \in GetFileOutcomes, dl \in DownloadOutcomes,
     fs_ok \in BOOLEAN, insert_ok \in BOOLEAN, ack_ok \in BOOLEAN, err_ok \in BOOLEAN :
    LET out == TryOutcome(gf, dl, fs_ok, ack_ok)
        downloaded == Downloaded(out)
        stored == out \in {"ack_failed", "ok"}
        filename == basename(gf.file_path)
        fs_path == save_media_to_fs(filename, clock)
        saved == save_media_to_db(DATABASE_URL, psycopg2, insert_ok)
        tag == [type |-> type, file_id |-> file_id]
    IN
    /\ media_cache' = IF downloaded
                        THEN Put(media_cache, file_id, CacheEntry(dl.bytes, type, filename))
                        ELSE media_cache
    /\ media_dir' = IF downloaded /\ fs_ok
                      THEN write(media_dir, fs_path, dl.bytes)
                      ELSE media_dir
    /\ fx' = [fx EXCEPT
                ![type] = out,
                !.reached = @ \cup {type},
                !.getfile = Append(@, tag),
                !.download = IF gf.ok
                               THEN Append(@, [type |-> type, file_id |-> file_id,
                                               bytes |-> dl.bytes])
                               ELSE @,
                !.cached = IF downloaded THEN Append(@, tag) ELSE @,
                !.fs = IF downloaded
                         THEN Append(@, [type |-> type, name |-> basename(fs_path),
                                         ok |-> fs_ok])
                         ELSE @,
                !.db = IF stored
                         THEN Append(@, [type |-> type, ok |-> saved.ok,
                                         connected |-> saved.connected])
                         ELSE @,
                !.sent = @ \o (IF stored
                                 THEN <<Ack(type \o "_ack", ack_ok, basename(fs_path))>>
                                 ELSE <<>>)
                           \o (IF out /= "ok" THEN <<Sent(type \o "_err", err_ok, {})>> ELSE <<>>),
                !.caught = (out /= "ok" /\ ~err_ok)]
    /\ pc' = IF out /= "ok" /\ ~err_ok THEN "done" ELSE next

\* Line 345: the variant process_update keeps.
LargestFirst(photos) == photos[1]
Largest(photos) == photos[Len(photos)]

\* Lines 341-367.
process_update_photo ==
  /\ pc = "photo"
  /\ LET photo == MessageOf(payload).photo IN
     IF photo.t = "list" /\ photo.items /= <<>>
       THEN Ingest("photo", Largest(photo.items), "video")
       ELSE /\ pc' = "video"
            /\ fx' = [fx EXCEPT !.reached = @ \cup {"photo"}]
            /\ media_cache' = media_cache
            /\ media_dir' = media_dir
  /\ task' = TaskAfter(pc')
  /\ UNCHANGED <<config, aside, st, header, path, body, status, calls, payload>>

\* Lines 369-389.
process_update_video ==
  /\ pc = "video"
  /\ LET video == MessageOf(payload).video IN
     IF video /= Absent
       THEN Ingest("video", video, "text")
       ELSE /\ pc' = "text"
            /\ fx' = [fx EXCEPT !.reached = @ \cup {"video"}]
            /\ media_cache' = media_cache
            /\ media_dir' = media_dir
  /\ task' = TaskAfter(pc')
  /\ UNCHANGED <<config, aside, st, header, path, body, status, calls, payload>>

\* Lines 395-409: the reply to a text.
Reply(text) ==
  IF startswith(text, "/start") THEN "start"
  ELSE IF startswith(text, "/list_cache") THEN "list_cache"
  ELSE "echo"

\* Lines 391-411.
process_update_text ==
  /\ pc = "text"
  /\ LET text == MessageOf(payload).text IN
     IF text.t = "absent"
       THEN fx' = [fx EXCEPT !.reached = @ \cup {"text"}]
     ELSE IF text.t = "other"
       THEN \* line 392: .strip() of a non-string raises, caught at line 410
            fx' = [fx EXCEPT !.reached = @ \cup {"text"}, !.caught = TRUE]
     ELSE \E sent_ok \in BOOLEAN :
            LET kind == Reply(strip(text.toks))
                keys == DOMAIN media_cache
                message == IF kind = "list_cache" THEN Listing(sent_ok, keys)
                           ELSE Sent(kind, sent_ok, {})
            IN fx' = [fx EXCEPT
                        !.reached = @ \cup {"text"},
                        !.sent = Append(@, message),
                        !.caught = ~sent_ok]
  /\ pc' = "done"
  /\ task' = TaskAfter(pc')
  /\ UNCHANGED <<config, aside, media_dir, media_cache, st, header, path, body, status,
                 calls, payload>>

(***************************************************************************)
(* /healthz, /cache_keys, /admin/delete_cache                              *)
(***************************************************************************)
\* One request to these endpoints is served at a time.
AdminIdle == admin.done

\* Lines 534-536.
healthz ==
  /\ AdminIdle
  /\ admin' = Healthz
  /\ UNCHANGED <<config, store, media_cache, request, retention, wire>>

\* Lines 539-542: the dict display evaluates len(media_cache), then
\* list(media_cache.keys()); the handler runs in a worker thread.
cache_keys_count ==
  /\ AdminIdle
  /\ admin' = CacheKeys(FALSE, Cardinality(DOMAIN media_cache), {})
  /\ UNCHANGED <<config, store, media_cache, request, retention, wire>>

cache_keys_list ==
  /\ admin.endpoint = "cache_keys" /\ ~admin.done
  /\ admin' = CacheKeys(TRUE, admin.count, DOMAIN media_cache)
  /\ UNCHANGED <<config, store, media_cache, request, retention, wire>>

\* Lines 545-551.
DeleteKeepsEntry(cache, file_id) == cache
DeleteEntry(cache, file_id) == Del(cache, file_id)

admin_delete_cache ==
  /\ AdminIdle
  /\ \E file_id \in AdminFileIds :
       IF file_id \in DOMAIN media_cache
         THEN /\ media_cache' = DeleteEntry(media_cache, file_id)
              /\ admin' = Deleted(file_id)
         ELSE /\ media_cache' = media_cache
              /\ admin' = NotFound(file_id)
  /\ UNCHANGED <<config, store, request, retention, wire>>

(***************************************************************************)
(* The retention loop                                                      *)
(***************************************************************************)
\* Line 513: startup_event creates the task of monthly_cleanup_loop.
startup_event ==
  /\ loop = "none"
  /\ loop' = "created"
  /\ UNCHANGED <<config, store, media_cache, request, admin, wire, now, next_run, utcoffset,
                 log_dir, report>>

\* Lines 487-497: the first iteration, up to its sleep.
monthly_cleanup_start ==
  /\ loop = "created"
  /\ loop' = "sleeping"
  /\ next_run' = NextRun(now)
  /\ UNCHANGED <<config, store, media_cache, request, admin, wire, now, utcoffset, log_dir,
                 report>>

\* Lines 497-504 and 489-497: the sleep returns, _remove_old_logs runs with 31
\* days, and the next iteration reads the local time and sleeps again.
\* Nothing between the two sleeps awaits.
CleanupDays == 31
monthly_cleanup_wake ==
  /\ loop = "sleeping"
  /\ now.year <= LastYear
  /\ \E after \in UtcOffsets, failing \in SUBSET DOMAIN log_dir :
       LET woken == LocalAfterSleep(next_run, utcoffset, after)
           run == remove_old_logs(log_dir, time(woken, after), CleanupDays, failing)
       IN /\ now' = woken
          /\ utcoffset' = after
          /\ log_dir' = run.dir
          /\ report' = run.report
          /\ next_run' = NextRun(woken)
  /\ loop' = "sleeping"
  /\ UNCHANGED <<config, store, media_cache, request, admin, wire>>

\* Lines 498-500: CancelledError reaches the loop at its await, or the task
\* before its first step; the loop returns.
cancelled_cleans ==
  /\ loop' = "exited"
  /\ log_dir' = remove_old_logs(log_dir, time(now, utcoffset), CleanupDays, {}).dir
  /\ UNCHANGED <<now, next_run, utcoffset, report>>
cancelled ==
  /\ loop' = "exited"
  /\ UNCHANGED <<now, next_run, utcoffset, log_dir, report>>

monthly_cleanup_cancel ==
  /\ loop \in {"created", "sleeping"}
  /\ cancelled
  /\ UNCHANGED <<config, store, media_cache, request, admin, wire>>

(***************************************************************************)
(* The transport client                                                    *)
(***************************************************************************)
\* Lines 90-206: a call of a method of the platform through _api_post.
api_call ==
  /\ \E method \in ApiMethods, resp \in ApiResponses :
       LET call == api_post(resp) IN
       wire' = [op |-> method, requests |-> [i \in 1..call.requests |-> method],
                status |-> resp.status, json |-> resp.json, ok |-> resp.ok,
                file_path |-> resp.file_path, returned |-> call.returned]
  /\ UNCHANGED <<config, store, media_cache, request, admin, retention>>

\* Lines 349-350 and 374-375: get_file_path, then download_file_by_path of
\* the path it returned; wire keeps the response to getFile.
file_download ==
  /\ \E resp \in ApiResponses, got \in FileResponses :
       LET out == TryOutcome(get_file_path(resp), download_file_by_path(got), TRUE, TRUE)
       IN wire' = [op |-> "download",
                   requests |-> <<"getFile">>
                                  \o (IF out /= "resolve_failed" THEN <<"file">> ELSE <<>>),
                   status |-> resp.status, json |-> resp.json, ok |-> resp.ok,
                   file_path |-> resp.file_path, returned |-> Downloaded(out)]
  /\ UNCHANGED <<config, store, media_cache, request, admin, retention>>

(***************************************************************************)
(* The filesystem sink                                                     *)
(***************************************************************************)
\* Lines 225-235: a call of save_media_to_fs with the bytes and the filename
\* its caller supplies; when open or write raises, the directory is as it was.
save_media_to_fs_call ==
  /\ \E file_bytes \in FileBytes, filename \in FileNames, fs_ok \in BOOLEAN :
       LET dest == save_media_to_fs(filename, clock)
       IN media_dir' = IF fs_ok THEN write(media_dir, dest, file_bytes) ELSE media_dir
  /\ UNCHANGED <<config, media_cache, request, aside>>

\* Line 231: a second passes between two readings of time.time().
clock_tick ==
  /\ clock < MaxClock
  /\ clock' = clock + 1
  /\ UNCHANGED <<config, media_cache, request, admin, retention, wire, media_dir>>

(***************************************************************************)
(* Specifications                                                          *)
(***************************************************************************)
Reactor == webhook_authenticate \/ webhook_parse \/ webhook_schedule \/ webhook_respond

Dispatch ==
  \/ process_update_begin
  \/ process_update_photo
  \/ process_update_video
  \/ process_update_text

\* The dispatcher, on every update, behind requests that authenticate.
Next ==
  \/ webhook_receive({None}, {Secret}, Bodies)
  \/ webhook_authenticate
  \/ webhook_parse
  \/ webhook_schedule
  \/ webhook_respond
  \/ task_start
  \/ process_update_begin
  \/ process_update_photo
  \/ process_update_video
  \/ process_update_text

Spec == Init /\ [][Next]_vars

\* The endpoint, on every header and path, with one body of each shape.
NextWebhook ==
  \/ webhook_receive(Headers, Paths, WebhookBodies)
  \/ webhook_authenticate
  \/ webhook_parse
  \/ webhook_schedule
  \/ webhook_respond
  \/ task_start
  \/ process_update_begin
  \/ process_update_photo
  \/ process_update_video
  \/ process_update_text

SpecWebhook == Init /\ [][NextWebhook]_vars

\* The cache under everything that runs beside it: webhook requests that are
\* rejected or dispatched, and the auxiliary endpoints.
NextCache ==
  \/ webhook_receive({None, "wrong"}, {Secret}, CacheBodies)
  \/ webhook_authenticate
  \/ webhook_parse
  \/ webhook_schedule
  \/ webhook_respond
  \/ task_start
  \/ process_update_begin
  \/ process_update_photo
  \/ process_update_video
  \/ process_update_text
  \/ healthz
  \/ cache_keys_count
  \/ cache_keys_list
  \/ admin_delete_cache

SpecCache == InitCache /\ [][NextCache]_vars

\* Everything that runs in the process, side by side.
NextFrame ==
  \/ webhook_receive({None, "wrong"}, {Secret}, FrameBodies)
  \/ webhook_authenticate
  \/ webhook_parse
  \/ webhook_schedule
  \/ webhook_respond
  \/ task_start
  \/ process_update_begin
  \/ process_update_photo
  \/ process_update_video
  \/ process_update_text
  \/ healthz
  \/ cache_keys_count
  \/ cache_keys_list
  \/ admin_delete_cache
  \/ startup_event
  \/ monthly_cleanup_start
  \/ monthly_cleanup_wake
  \/ monthly_cleanup_cancel

SpecFrame == InitFrame /\ [][NextFrame]_vars

\* The transport client on every response.
NextTransport == api_call \/ file_download

SpecTransport == Init /\ [][NextTransport]_vars

\* The retention loop from every start time.
NextRetention ==
  \/ startup_event
  \/ monthly_cleanup_start
  \/ monthly_cleanup_wake
  \/ monthly_cleanup_cancel

SpecRetention == InitRetention /\ [][NextRetention]_vars

\* The filesystem sink on its own: calls of save_media_to_fs while the clock
\* advances.
NextFs ==
  \/ save_media_to_fs_call
  \/ clock_tick

SpecFs == InitCache /\ [][NextFs]_vars

\* The dispatcher under every configuration of the database sink.
SpecDb == InitDb /\ [][Next]_vars

\* The event loop runs the handler on, and the thread pool runs the tasks it
\* was given.
FairWebhook ==
  SpecWebhook /\ WF_vars(Reactor) /\ WF_vars(task_start) /\ WF_vars(Dispatch)

(***************************************************************************)
(* The webhook endpoint (checked under SpecWebhook and FairWebhook)        *)
(***************************************************************************)
\* The handler has taken its authentication decision for the request.
AuthDecided == st \notin {"idle", "received"}

\* process_update was neither scheduled nor called for the request.
NoDispatch == calls = 0 /\ task = "none" /\ pc = "idle"

\* C1, as stated: while a secret is configured, a request whose header token is
\* present and differs from the secret is answered 403 and process_update is
\* never invoked for it, whatever its path segment and body.
C1_Original ==
  (WEBHOOK_SECRET /= "" /\ AuthDecided /\ header /= None /\ header /= WEBHOOK_SECRET)
    => (st = "rejected" /\ status = 403 /\ NoDispatch)

\* C1, amended: while a secret is configured, a request whose header token is
\* non-empty and differs from the secret is answered 403 and process_update is
\* never invoked for it, whatever its path segment and body.
C1_HeaderMismatchRejected ==
  (WEBHOOK_SECRET /= "" /\ AuthDecided /\ Truthy(header) /\ header /= WEBHOOK_SECRET)
    => (st = "rejected" /\ status = 403 /\ NoDispatch)

\* A mismatched header was rejected although the path segment matches.
C1_Witness ==
  /\ WEBHOOK_SECRET /= ""
  /\ Truthy(header) /\ header /= WEBHOOK_SECRET
  /\ path = WEBHOOK_SECRET
  /\ body.json
  /\ st = "rejected" /\ status = 403

\* C2, as stated: the request passes authentication iff no secret is
\* configured, or a header token is present and equals the secret, or no header
\* token is present and the path segment equals the secret.
C2_Original ==
  AuthDecided =>
    ((status /= 403) <=>
       \/ WEBHOOK_SECRET = ""
       \/ header /= None /\ header = WEBHOOK_SECRET
       \/ header = None /\ path = WEBHOOK_SECRET)

\* C2, amended: the request passes authentication iff no secret is configured,
\* or the header token is non-empty and equals the secret, or the header token
\* is missing or empty and the path segment equals the secret.
C2_AuthReference ==
  AuthDecided =>
    ((status /= 403) <=>
       \/ WEBHOOK_SECRET = ""
       \/ Truthy(header) /\ header = WEBHOOK_SECRET
       \/ ~Truthy(header) /\ path = WEBHOOK_SECRET)

\* An empty header token fell back to the path check, which passed.
C2_Witness ==
  /\ WEBHOOK_SECRET /= ""
  /\ header = ""
  /\ path = WEBHOOK_SECRET
  /\ st = "authenticated"

\* C3: an authenticated request whose body does not decode as a JSON object is
\* answered 400 and process_update is never invoked for it.
C3_NonObjectRejected ==
  (AuthDecided /\ status /= 403 /\ st /= "authenticated"
     /\ (~body.json \/ body.val.t /= "object"))
    => (st = "rejected" /\ status = 400 /\ NoDispatch)

\* C4: an authenticated request with a JSON-object payload is answered 200, and
\* the endpoint returns no other status than 200, 403 and 400.
C4_OnlyTwoFailureStatuses ==
  /\ status \in {0, 200, 400, 403}
  /\ (st \in {"acknowledged", "failed"} /\ body.json /\ body.val.t = "object")
       => status = 200

\* The payload of the request was handed to process_update the number of
\* times its state calls for: once when it ran inline or the task started,
\* not yet while the task is pending.
C5_HandedOnce ==
  /\ calls <= 1
  /\ task = "pending" => calls = 0
  /\ task \in {"running", "finished"}
       => (calls = 1 /\ st \in {"scheduled", "acknowledged"})
  /\ (st \in {"inline", "acknowledged", "failed"} /\ task = "none") => calls = 1
  /\ st = "inline" => task = "none"

\* C5: every authenticated and parsed payload is handed to process_update
\* exactly once, by the scheduled task or else inline, never dropped and never
\* by both; with a fair event loop and thread pool the scheduled dispatch runs.
C5_DispatchedExactlyOnce ==
  /\ []C5_HandedOnce
  /\ (st = "parsed") ~> (calls = 1)
  /\ (task = "pending") ~> (task = "finished")

\* A scheduled dispatch ran to its end after the request was acknowledged.
C5_Witness ==
  /\ st = "acknowledged" /\ status = 200
  /\ task = "finished" /\ calls = 1 /\ pc = "done"

(***************************************************************************)
(* The dispatcher (checked under Spec)                                     *)
(***************************************************************************)
\* The entries of a log of fx that belong to a media kind.
Of(log, type) == {i \in DOMAIN log : log[i].type = type}

\* The messages of a kind that process_update passed to send_message.
SentOf(kind) == {i \in DOMAIN fx.sent : fx.sent[i].kind = kind}

\* C6: process_update returns normally on every payload the endpoint lets
\* through and on every failure of the calls it makes: no exception leaves it.
C6_AlwaysReturns == pc /= "raised"

\* C7: after a successful download the sink writes are independent: when the
\* filesystem write fails, the database write is still attempted and the
\* acknowledgment still sent; when the database write fails, the cache and the
\* filesystem hold the media and the acknowledgment is still sent.
C7_SinksIndependent ==
  \A type \in MediaKinds :
    /\ fx[type] = "fs_failed"
         => (Of(fx.db, type) /= {} /\ SentOf(type \o "_ack") /= {})
    /\ (\E i \in Of(fx.db, type) : ~fx.db[i].ok)
         => /\ Of(fx.cached, type) /= {}
            /\ \E i \in Of(fx.fs, type) : fx.fs[i].ok
            /\ SentOf(type \o "_ack") /= {}

\* C8: when resolving or downloading the photo fails, the error notice is sent
\* and the dispatch goes on to the video and the text of the message, also
\* when sending the notice fails.
C8_PhotoFailureContained ==
  fx.photo \in {"resolve_failed", "download_failed"}
    => /\ SentOf("photo_err") /= {}
       /\ pc = "video" \/ "video" \in fx.reached
       /\ pc = "done" /\ fx.video \in {"none", "ok"} => "text" \in fx.reached

\* C9: of a non-empty photo list, the file id resolved, downloaded and used as
\* cache key is the one of the last element and no other; an empty photo list
\* (or a photo that is no list) triggers no download, no sink write, no reply.
C9_LastVariantSelected ==
  LET photo == MessageOf(payload).photo
      n == Len(photo.items)
      logs == <<fx.getfile, fx.download, fx.cached>>
  IN
  /\ \A k \in DOMAIN logs :
       /\ Cardinality(Of(logs[k], "photo")) <= 1
       /\ \A i \in Of(logs[k], "photo") :
            photo.t = "list" /\ n >= 1 /\ logs[k][i].file_id = photo.items[n]
  /\ (pc = "video" /\ Of(fx.cached, "photo") /= {})
       => /\ photo.items[n] \in DOMAIN media_cache
          /\ media_cache[photo.items[n]].type = "photo"
  /\ ("photo" \in fx.reached /\ (photo.t /= "list" \/ n = 0))
       => /\ fx.photo = "none"
          /\ Of(fx.getfile, "photo") = {} /\ Of(fx.fs, "photo") = {}
          /\ Of(fx.db, "photo") = {}
          /\ SentOf("photo_ack") = {} /\ SentOf("photo_err") = {}
          /\ pc = "video" => fx.sent = <<>>

\* The last of two different variants was resolved, downloaded and cached.
C9_Witness ==
  LET photo == MessageOf(payload).photo IN
  /\ Len(photo.items) = 2 /\ photo.items[1] /= photo.items[2]
  /\ fx.photo = "ok"
  /\ fx.cached = <<[type |-> "photo", file_id |-> photo.items[2]]>>

\* process_update did nothing but send the 'not registered' notice.
OnlyNotice(f) ==
  /\ f.reached = {}
  /\ f.getfile = <<>> /\ f.download = <<>> /\ f.cached = <<>>
  /\ f.fs = <<>> /\ f.db = <<>>
  /\ Len(f.sent) = 1 /\ f.sent[1].kind = "not_registered"

\* C10: when user_exists answers False, process_update sends the one 'not
\* registered' notice and stops: it resolves and downloads nothing, writes no
\* sink, leaves the cache unchanged and answers no text, whether or not
\* sending the notice fails.
C10_UnregisteredStops ==
  [][/\ (fx.user /= "false" /\ fx'.user = "false")
          => (pc' = "done" /\ media_cache' = media_cache /\ OnlyNotice(fx'))
     /\ (fx.user = "false" /\ fx'.user = "false")
          => (pc' = "done" /\ fx' = fx)]_vars

\* An unregistered sender's photo and text: the notice failed, nothing else
\* was done.
C10_Witness ==
  /\ fx.user = "false" /\ pc = "done"
  /\ MessageOf(payload).photo.items /= <<>>
  /\ MessageOf(payload).text.t = "str"
  /\ ~fx.sent[1].ok

(***************************************************************************)
(* The database sink (checked under SpecDb)                                *)
(***************************************************************************)
\* The database sink is off: no connection string, or no driver.
DbOff == ~Truthy(DATABASE_URL) \/ psycopg2 = None

\* C11: with the database unconfigured or its driver missing, every call of
\* save_media_to_db returns False without raising and without connecting, and
\* an ingestion whose download and filesystem write succeed still holds its
\* cache entry, and is acknowledged with the name of the stored file.
C11_DbOffIngestionCompletes ==
  DbOff =>
    \A type \in MediaKinds :
      /\ \A i \in Of(fx.db, type) : ~fx.db[i].ok /\ ~fx.db[i].connected
      /\ (\E i \in Of(fx.fs, type) : fx.fs[i].ok)
           => /\ fx[type] \in {"ok", "ack_failed"}
              /\ Of(fx.db, type) /= {}
              /\ \A i \in Of(fx.cached, type) :
                   fx.cached[i].file_id \in DOMAIN media_cache
              /\ Of(fx.cached, type) /= {}
              /\ \E j \in SentOf(type \o "_ack") : \E i \in Of(fx.fs, type) :
                   fx.sent[j].name = fx.fs[i].name /\ fx.sent[j].name /= NoName

\* A photo ingested without a connection string: cached, stored, acknowledged.
C11_Witness ==
  /\ DATABASE_URL = "" /\ psycopg2 /= None
  /\ fx.photo = "ok"
  /\ Len(fx.db) = 1 /\ ~fx.db[1].connected
  /\ Cardinality(DOMAIN media_cache) = 1
  /\ \E j \in SentOf("photo_ack") : fx.sent[j].ok /\ fx.sent[j].name = fx.fs[1].name

(***************************************************************************)
(* The media cache (checked under SpecCache)                               *)
(***************************************************************************)
\* A step that answers a request to /admin/delete_cache.
AdminDeleteStep ==
  admin' /= admin /\ admin'.endpoint = "admin_delete_cache"

\* C12: admin_delete_cache(id) of a key answers 'deleted' with id, removes
\* that key and no other and leaves the other entries as they were; of an id
\* that is no key it answers 'not found' with deleted = null and leaves the
\* cache as it was; no other step removes a key; a second delete of the id
\* just deleted answers 'not found'.
C12_DeleteFrame ==
  [][/\ AdminDeleteStep =>
          LET id == admin'.file_id IN
          IF id \in DOMAIN media_cache
            THEN /\ admin' = Deleted(id)
                 /\ DOMAIN media_cache' = DOMAIN media_cache \ {id}
                 /\ \A k \in DOMAIN media_cache' : media_cache'[k] = media_cache[k]
            ELSE /\ admin' = NotFound(id)
                 /\ admin'.deleted = None /\ admin'.msg = "not found"
                 /\ media_cache' = media_cache
     /\ (DOMAIN media_cache \ DOMAIN media_cache' /= {})
          => /\ admin'.endpoint = "admin_delete_cache"
             /\ DOMAIN media_cache \ DOMAIN media_cache' = {admin'.deleted}
             /\ \A k \in DOMAIN media_cache' : media_cache'[k] = media_cache[k]
     /\ (/\ admin.endpoint = "admin_delete_cache" /\ admin.deleted = admin.file_id
         /\ admin.file_id \notin DOMAIN media_cache
         /\ AdminDeleteStep /\ admin'.file_id = admin.file_id)
          => admin' = NotFound(admin.file_id)]_vars

\* One of two entries was deleted, the other is kept.
C12_Witness ==
  /\ admin = Deleted("f1")
  /\ DOMAIN media_cache = {"f2"}

\* A step of process_update that writes the cache.
CacheWriteStep == Len(fx'.cached) = Len(fx.cached) + 1

\* C13: the entry that a cache write leaves under the file id holds the bytes
\* that were just downloaded for it, whether or not the id was a key before;
\* the write adds no key but this one and changes no other entry, so that a
\* second ingestion of an id leaves one entry, with the later bytes.
C13_WriteThenRead ==
  [][CacheWriteStep =>
       LET id == fx'.cached[Len(fx'.cached)].file_id
           got == fx'.download[Len(fx'.download)]
       IN /\ got.file_id = id /\ got.bytes \in FileBytes
          /\ media_cache'[id].bytes = got.bytes
          /\ DOMAIN media_cache' = DOMAIN media_cache \cup {id}
          /\ \A k \in DOMAIN media_cache \ {id} : media_cache'[k] = media_cache[k]]_vars

\* The photo and the video of one message share their file id: the first
\* bytes were overwritten by the second.
C13_Witness ==
  /\ Len(fx.cached) = 2 /\ Len(fx.download) = 2
  /\ fx.cached[1].file_id = "f1" /\ fx.cached[2].file_id = "f1"
  /\ fx.download[1].bytes = "b1" /\ fx.download[2].bytes = "b2"
  /\ DOMAIN media_cache = {"f1"}
  /\ media_cache["f1"].bytes = "b2"

\* A step of process_update that answers /list_cache.
ListCacheStep ==
  /\ Len(fx'.sent) = Len(fx.sent) + 1
  /\ fx'.sent[Len(fx'.sent)].kind = "list_cache"

\* C14: the reply to /list_cache lists the keys the cache has at that step
\* and counts as many as it lists; on an empty cache it counts 0 and carries
\* the 'none' marker, on a cache of one id it lists that id and counts 1.
C14_ListCacheReports ==
  [][ListCacheStep =>
       LET reply == fx'.sent[Len(fx'.sent)] IN
       /\ reply.keys = DOMAIN media_cache
       /\ media_cache' = media_cache
       /\ reply.count = Cardinality(reply.keys)
       /\ reply.none <=> (DOMAIN media_cache = {})
       /\ reply.none => reply.count = 0
       /\ \A id \in FileIds :
            DOMAIN media_cache = {id} => (reply.keys = {id} /\ reply.count = 1)]_vars

\* The one photo of the message was ingested, and listed as the one key.
C14_Witness ==
  /\ fx.photo = "ok" /\ fx.video = "none"
  /\ fx.cached = <<[type |-> "photo", file_id |-> "f1"]>>
  /\ \E j \in SentOf("list_cache") :
       fx.sent[j].keys = {"f1"} /\ fx.sent[j].count = 1 /\ ~fx.sent[j].none

\* /list_cache on the empty cache.
C14_WitnessEmpty ==
  \E j \in SentOf("list_cache") :
    fx.sent[j].keys = {} /\ fx.sent[j].count = 0 /\ fx.sent[j].none

(***************************************************************************)
(* The retention loop (checked under SpecRetention)                        *)
(***************************************************************************)
\* A step in which the sleep of the loop returns and the cleanup runs.
CleanupStep ==
  loop = "sleeping" /\ loop' = "sleeping" /\ <<now, utcoffset>>' /= <<now, utcoffset>>

\* The log artifacts that are older than a number of days at clock reading t.
OlderThan(days, t) ==
  {f \in DOMAIN log_dir :
     /\ endswith(f, ".log") \/ prefixed(f, BotLog)
     /\ t - log_dir[f] > days * 24 * 60 * 60}

\* C15: a cleanup run of the loop has the threshold of 31 days; it removes
\* the log artifacts older than the threshold, but those whose removal failed,
\* and nothing else: every younger file and every other file stays as it was,
\* and a removal that fails keeps no other aged file from being removed.
C15_RemovesExactlyAged ==
  [][CleanupStep =>
       LET old == OlderThan(report'.older_than_days, time(now', utcoffset')) IN
       /\ report'.older_than_days = 31
       /\ report'.errors \subseteq old
       /\ report'.removed = old \ report'.errors
       /\ DOMAIN log_dir' = DOMAIN log_dir \ report'.removed
       /\ \A f \in DOMAIN log_dir' : log_dir'[f] = log_dir[f]]_vars

\* Of the files aged 10, 40 and 400 days the two older ones were removed; the
\* 400 days old file that is no log artifact was kept.
C15_Witness ==
  /\ report.older_than_days = 31
  /\ report.removed = {Rotated, AppLog} /\ report.errors = {}
  /\ DOMAIN log_dir = {BotLog, Notes}

\* One removal failed, the other aged file was removed.
C15_WitnessFailure ==
  report.removed = {AppLog} /\ report.errors = {Rotated}

\* C16: the step that cancels the loop removes no log file and runs no
\* cleanup, and once the loop has exited it stays exited and no log file is
\* removed any more.
C16_CancelledWithoutCleanup ==
  [][/\ loop' = "exited" => (log_dir' = log_dir /\ report' = report)
     /\ loop = "exited" => loop' = "exited"]_vars

\* The loop was cancelled in its first sleep, with a log file in the
\* directory that the wake would have removed.
C16_Witness ==
  /\ loop = "exited"
  /\ next_run = NextRun(now)
  /\ report = NoReport
  /\ AppLog \in OlderThan(31, time(next_run, utcoffset))

\* 00:05 on the first day of the month after the month of a datetime.
FirstOfNextMonth(dt) ==
  DateTime(dt.year + (dt.month \div 12), (dt.month % 12) + 1, 1, 0, 5)

\* C17: whenever the loop goes to sleep, the wake time is 00:05 on the first
\* of the month after the current one and later than the current local time;
\* each cleanup runs in the month after the month of the previous cleanup (of
\* the startup, for the first one): once a month, no month twice, no month
\* skipped.
C17_OncePerMonth ==
  [][/\ (loop' = "sleeping" /\ (loop = "created" \/ CleanupStep))
          => /\ next_run' = FirstOfNextMonth(now')
             /\ total_seconds(next_run', now') > 0
     /\ CleanupStep
          => <<now'.year, now'.month>> =
               <<FirstOfNextMonth(now).year, FirstOfNextMonth(now).month>>]_vars

(***************************************************************************)
(* The process as a whole (checked under SpecFrame)                        *)
(***************************************************************************)
\* A step of the dispatcher that inserts what it has just downloaded.
InsertAfterDownload ==
  /\ CacheWriteStep
  /\ pc \in MediaKinds
  /\ LET got == fx'.download[Len(fx'.download)] IN
     /\ Len(fx'.download) = Len(fx.download) + 1
     /\ got.bytes \in FileBytes
     /\ media_cache' = Put(media_cache, got.file_id,
                           CacheEntry(got.bytes, pc, media_cache'[got.file_id].filename))

\* A step of admin_delete_cache that deletes a key.
DeleteOfKey ==
  /\ AdminDeleteStep \/ admin = admin'
  /\ admin'.endpoint = "admin_delete_cache"
  /\ admin'.deleted \in DOMAIN media_cache
  /\ media_cache' = Del(media_cache, admin'.deleted)

\* C18: the cache changes only in an insert of the dispatcher that follows a
\* download that succeeded, and in a delete of admin_delete_cache.  It stays
\* as it is when a request is rejected with 403 or 400, in the prologue of
\* process_update (callback-query-only and empty updates among them), in a
\* media block without media or with a failed resolution or download, in the
\* text block (/start, /list_cache, echo), in /healthz and /cache_keys, and
\* in every step of the retention loop.
C18_CacheFrame ==
  [][/\ media_cache' /= media_cache => (InsertAfterDownload \/ DeleteOfKey)
     /\ (status' \in {400, 403} /\ status /= status') => media_cache' = media_cache
     /\ pc \in {"begin", "text"} /\ pc' /= pc => media_cache' = media_cache
     /\ (\E type \in MediaKinds :
           /\ pc = type /\ pc' /= pc
           /\ fx'[type] \in {"none", "resolve_failed", "download_failed"})
          => media_cache' = media_cache
     /\ (admin' /= admin /\ admin'.endpoint \in {"healthz", "cache_keys"})
          => media_cache' = media_cache
     /\ retention' /= retention => media_cache' = media_cache]_vars

\* The cache holds a photo after a request was rejected, /cache_keys was
\* answered and the cleanup has run.
C18_Witness ==
  /\ DOMAIN media_cache = {"f1"}
  /\ status = 403
  /\ admin.endpoint = "cache_keys" /\ admin.done /\ admin.keys = {"f1"}
  /\ report /= NoReport

(***************************************************************************)
(* The transport client (checked under SpecTransport)                      *)
(***************************************************************************)
\* In the two-step download the file is requested after getFile and only
\* when getFile gave a path; otherwise the download fails after getFile.
TwoStepDownload(resolved) ==
  wire.op = "download"
    => /\ wire.requests[1] = "getFile"
       /\ Len(wire.requests) = 2 <=> resolved
       /\ Len(wire.requests) = 2 => wire.requests[2] = "file"
       /\ ~resolved => ~wire.returned

\* C19 as stated: a call sends one request and returns the envelope only on
\* a 2xx status with ok true, and the bytes are fetched only after getFile
\* returned a path.
C19_Original ==
  /\ wire.op \in ApiMethods
       => /\ Len(wire.requests) = 1
          /\ wire.returned <=> (wire.status \in 200..299 /\ wire.json /\ wire.ok)
  /\ TwoStepDownload(wire.status \in 200..299 /\ wire.json /\ wire.ok
                       /\ wire.file_path /= <<>>)

\* C19: a call of the transport client sends one request, without retry, and
\* returns the envelope exactly when there is a response whose status is no
\* 4xx and no 5xx, whose body decodes and whose ok field is true; in the
\* two-step download the bytes are requested only after getFile returned a
\* path, and a failed or path-less getFile fails the download before that.
C19_OneRequestEnvelopeChecked ==
  LET accepted == /\ wire.status /= NoResponse
                  /\ wire.status \notin 400..599
                  /\ wire.json /\ wire.ok
  IN /\ wire.op \in ApiMethods
          => (Len(wire.requests) = 1 /\ (wire.returned <=> accepted))
     /\ TwoStepDownload(accepted /\ wire.file_path /= <<>>)

\* getFile answered ok without a file_path: the download failed and no bytes
\* were requested.
C19_Witness ==
  /\ wire.op = "download"
  /\ wire.status = 200 /\ wire.json /\ wire.ok /\ wire.file_path = <<>>
  /\ wire.requests = <<"getFile">>
  /\ ~wire.returned

(***************************************************************************)
(* The life of a webhook request (checked under SpecWebhook)               *)
(***************************************************************************)
\* The order of the states of a request; after a terminal state the next
\* request is received.
RequestOrder ==
  {<<"idle", "received">>,
   <<"received", "authenticated">>, <<"received", "rejected">>,
   <<"authenticated", "parsed">>, <<"authenticated", "rejected">>,
   <<"parsed", "scheduled">>, <<"parsed", "inline">>,
   <<"scheduled", "acknowledged">>, <<"inline", "acknowledged">>,
   <<"rejected", "received">>, <<"acknowledged", "received">>}

\* C20: a request goes from received through authenticated, parsed and
\* scheduled (or run inline) to acknowledged, or ends rejected, and ends in
\* no other state; its body is parsed only once it is authenticated, so that
\* 400 is answered only to an authenticated request; its dispatch is
\* initiated only once it is parsed; 200 is answered only once the dispatch
\* was scheduled or run inline.
C20_RequestLifecycle ==
  [][/\ st' /= st => <<st, st'>> \in RequestOrder
     /\ (status' = 400 /\ status /= 400) => st = "authenticated"
     /\ (payload' /= payload /\ payload' /= NoPayload) => st = "authenticated"
     /\ (task' = "pending" /\ task /= "pending") => st = "parsed"
     /\ calls' > calls => st \in {"parsed", "scheduled", "acknowledged"}
     /\ (status' = 200 /\ status /= 200) => st \in {"scheduled", "inline"}]_vars

(***************************************************************************)
(* /cache_keys beside the dispatch (checked under SpecCache)               *)
(***************************************************************************)
\* cache_keys returns its response.
CacheKeysResponds ==
  admin' /= admin /\ admin'.endpoint = "cache_keys" /\ admin'.done

\* C22: in every interleaving of /cache_keys with the dispatches running on
\* worker threads, the response is a snapshot of the cache at one moment of
\* the request: its keys are the key set the cache holds when they are read,
\* and its count is the number of these keys.
C22_ConsistentSnapshot ==
  [][CacheKeysResponds =>
       /\ admin'.keys = DOMAIN media_cache
       /\ admin'.count = Cardinality(admin'.keys)]_vars

(***************************************************************************)
(* The filesystem sink (checked under SpecFs)                              *)
(***************************************************************************)
\* C21: over any sequence of save_media_to_fs calls no two calls resolve to
\* the same destination path, so a write never overwrites a file an earlier
\* write stored: every file of the media directory is still there after a
\* step, with the bytes it had.
C21_NeverOverwrites ==
  [][\A d \in DOMAIN media_dir :
       d \in DOMAIN media_dir' /\ media_dir'[d] = media_dir[d]]_vars

====
